---------------------------- MODULE Spec2Model ----------------------------
(***************************************************************************)
(* Event Management API (src/app/main.py): four MongoDB collections        *)
(* (venues, events, attendees, bookings), a GridFS bucket, and the FastAPI *)
(* handlers that read and write them.                                      *)
(*                                                                         *)
(* Spec      : every handler runs from start to finish on its own          *)
(*             (requests one at a time).                                   *)
(* NoDelSpec : as Spec, without the four DELETE handlers.                  *)
(* ConcSpec  : the venue handlers split at their awaits, the steps of      *)
(*             concurrent requests interleaved.                            *)
(***************************************************************************)
EXTENDS Integers, FiniteSets, Sequences, TLC

VARIABLES
    venues,      \* db.venues    : ObjectId -> document
    events,      \* db.events    : ObjectId -> document
    attendees,   \* db.attendees : ObjectId -> document
    bookings,    \* db.bookings  : ObjectId -> document
    fs,          \* GridFS       : ObjectId -> stored file
    nextId,      \* the next ObjectId the driver generates
    last,        \* observer: the latest response recorded
    audit,       \* observer: whether responses are recorded ("all" or "off")
    deleted,     \* history: <<collection, ObjectId>> of every successful delete
    inflight     \* ConcSpec: the suspended requests, client -> frame

vars == <<venues, events, attendees, bookings, fs, nextId, last, audit, deleted, inflight>>

db == <<venues, events, attendees, bookings, fs>>

-----------------------------------------------------------------------------
(* Bounds *)

\* ObjectIds generated in one run (documents and GridFS files together)
MaxNewIds == 1

\* Concurrent clients of ConcSpec
NumClients == 2

-----------------------------------------------------------------------------
(* Values *)

\* Python None
None == "<None>"

\* A key that a document does not hold ("photo_file_id" not in venue)
Missing == "<missing>"

\* ObjectIds generated by earlier runs: the documents of the populated
\* database (a venue, its photo, an event, an attendee)
OldIds == 1 .. 4

FirstId == Cardinality(OldIds) + 1

MaxIds == FirstId + MaxNewIds - 1

OidValues == 1 .. (MaxIds + 1)

\* The 24 hex digits of each ObjectId, in lower and in upper case
LowerHex == [oid \in OidValues |-> "65f0c0ffee0000000000abc" \o ToString(oid)]

UpperHex == [oid \in OidValues |-> "65F0C0FFEE0000000000ABC" \o ToString(oid)]

\* str(ObjectId): 24 lowercase hex digits
ObjectIdStr(oid) == LowerHex[oid]

\* The same 24 digits written in upper case: another spelling of the same id
UpperStr(oid) == UpperHex[oid]

\* A string of 24 or more characters that is not 24 hex digits
Malformed == "this-is-not-24-hex-digits"

\* ObjectId.is_valid(s): s is 24 hex digits, in either case
is_valid(s) == \E oid \in OidValues : s = LowerHex[oid] \/ s = UpperHex[oid]

\* ObjectId(s) for a valid s
ObjectId(s) == CHOOSE oid \in OidValues : s = LowerHex[oid] \/ s = UpperHex[oid]

\* The id strings a client sends for a document of collection coll: the id
\* of each stored document, one well-formed id that names no document of
\* coll, and a malformed one.  (Every other well-formed id that names nothing
\* gets the same answer and leaves the same state.)
IdInputs(coll) ==
    {ObjectIdStr(k) : k \in DOMAIN coll}
    \cup {ObjectIdStr(CHOOSE k \in OidValues : k \notin DOMAIN coll)}
    \cup {Malformed}

\* The id strings a client puts in a path: those of IdInputs, and the
\* upper-case spelling of each stored document's id
PathIds(coll) == IdInputs(coll) \cup {UpperStr(k) : k \in DOMAIN coll}

\* Request bodies that pass the pydantic validators
VenueIn ==
    { [name |-> "Hall A", address |-> "1 Main St", capacity |-> 100],
      [name |-> "Hall B", address |-> "2 High St", capacity |-> 50] }

AttendeeIn ==
    { [name |-> "Ann", email |-> "ann@x.org", phone |-> None],
      [name |-> "Bob", email |-> "bob@x.org", phone |-> "555-0100"] }

EventIn ==
    { [name |-> "Gala", description |-> None, venue_id |-> v,
       date |-> "2025-01-01", max_attendees |-> 10] : v \in IdInputs(venues) }
    \cup
    { [name |-> "Expo", description |-> "trade fair", venue_id |-> v,
       date |-> "2025-02-02", max_attendees |-> 20] : v \in IdInputs(venues) }

BookingIn ==
    { [event_id |-> e, attendee_id |-> a, tickets |-> 1, booking_date |-> "2025-01-01"]
        : e \in IdInputs(events), a \in IdInputs(attendees) }
    \cup
    { [event_id |-> e, attendee_id |-> a, tickets |-> 2, booking_date |-> "2025-02-02"]
        : e \in IdInputs(events), a \in IdInputs(attendees) }

\* Uploaded files: bytes, the part's Content-Type header (None when the part
\* carries none), filename
UploadFile ==
    { [content |-> "PNG-bytes", content_type |-> "image/png", filename |-> "a.png"],
      [content |-> "raw-bytes", content_type |-> None, filename |-> "b.bin"] }

-----------------------------------------------------------------------------
(* The document store and GridFS, as the handlers use them *)

\* collection.insert_one(doc) with the generated _id
insert_one(coll, oid, doc) == [k \in DOMAIN coll \cup {oid} |-> IF k = oid THEN doc ELSE coll[k]]

\* What find_one returns when no document matches (None)
NoDoc == [none |-> TRUE]

\* collection.find_one({"_id": oid}): the document, or None
find_one(coll, oid) == IF oid \in DOMAIN coll THEN coll[oid] ELSE NoDoc

\* update_one({"_id": oid}, {"$set": fields}).matched_count
matched_count(coll, oid) == IF oid \in DOMAIN coll THEN 1 ELSE 0

\* update_one({"_id": oid}, {"$set": fields}): the named keys are set, the
\* document's other keys stay; nothing is inserted when no document matches
update_one(coll, oid, fields) ==
    IF oid \in DOMAIN coll
    THEN [coll EXCEPT ![oid] =
            [f \in DOMAIN coll[oid] |-> IF f \in DOMAIN fields THEN fields[f] ELSE coll[oid][f]]]
    ELSE coll

\* delete_one({"_id": oid}).deleted_count
deleted_count(coll, oid) == IF oid \in DOMAIN coll THEN 1 ELSE 0

\* delete_one({"_id": oid})
delete_one(coll, oid) == [k \in DOMAIN coll \ {oid} |-> coll[k]]

\* fs.put(content, filename=..., contentType=...)
fs_put(files, oid, file) ==
    insert_one(files, oid, [content |-> file.content, contentType |-> file.content_type,
                            filename |-> file.filename])

\* model_dump() of each input model, as stored by insert_one: the attachment
\* keys are not part of the dump, so a new document does not hold them
venue_dump(venue) ==
    [name |-> venue.name, address |-> venue.address, capacity |-> venue.capacity]

event_dump(event) ==
    [name |-> event.name, description |-> event.description, venue_id |-> event.venue_id,
     date |-> event.date, max_attendees |-> event.max_attendees]

booking_dump(booking) ==
    [event_id |-> booking.event_id, attendee_id |-> booking.attendee_id,
     tickets |-> booking.tickets, booking_date |-> booking.booking_date]

attendee_dump(attendee) ==
    [name |-> attendee.name, email |-> attendee.email, phone |-> attendee.phone]

\* A stored document: the dumped keys and the attachment keys it may hold
new_venue(venue) == venue_dump(venue) @@ [photo_file_id |-> Missing]

new_event(event) ==
    event_dump(event) @@ [poster_file_id |-> Missing, promo_video_file_id |-> Missing]

\* doc.get(key): None when the document does not hold the key
doc_get(doc, key) == IF doc[key] = Missing THEN None ELSE doc[key]

-----------------------------------------------------------------------------
(* Responses *)

Ok(body) == [status |-> 200, detail |-> "", body |-> body]

HTTPException(status_code, detail) == [status |-> status_code, detail |-> detail, body |-> NoDoc]

\* doc["name"] on None: TypeError, which FastAPI answers with 500
ServerError == [status |-> 500, detail |-> "Internal Server Error", body |-> NoDoc]

\* What the observer holds after handler op answered resp: the response
\* under "all", what it held under "off"
Seen(op, resp) ==
    IF audit = "all"
    THEN [op |-> op, status |-> resp.status, detail |-> resp.detail]
    ELSE last

-----------------------------------------------------------------------------
(* Venues *)

venue_out(doc) ==
    [id |-> ObjectIdStr(doc._id), name |-> doc.name, address |-> doc.address,
     capacity |-> doc.capacity]

\* return venue_out(doc), doc the result of a find_one
return_venue(coll, oid) ==
    LET doc == find_one(coll, oid)
    IN  IF doc = NoDoc THEN ServerError ELSE Ok(venue_out([_id |-> oid] @@ doc))

create_venue_response(coll, oid, venue) ==
    return_venue(insert_one(coll, oid, new_venue(venue)), oid)

create_venue(venue) ==
    /\ nextId <= MaxIds
    /\ venues' = insert_one(venues, nextId, new_venue(venue))
    /\ nextId' = nextId + 1
    /\ last' = Seen("create_venue", create_venue_response(venues, nextId, venue))
    /\ UNCHANGED <<events, attendees, bookings, fs, deleted, inflight, audit>>

\* Faulty variant of get_venue_response: the query is made with the string,
\* not with ObjectId(venue_id), and so matches no document
get_venue_response_raw_id(coll, venue_id) ==
    IF ~is_valid(venue_id) THEN HTTPException(400, "Invalid venue id")
    ELSE HTTPException(404, "Venue not found")

get_venue_response(coll, venue_id) ==
    IF ~is_valid(venue_id) THEN HTTPException(400, "Invalid venue id")
    ELSE IF find_one(coll, ObjectId(venue_id)) = NoDoc
         THEN HTTPException(404, "Venue not found")
         ELSE return_venue(coll, ObjectId(venue_id))

get_venue(venue_id) ==
    /\ last' = Seen("get_venue", get_venue_response(venues, venue_id))
    /\ UNCHANGED <<db, nextId, deleted, inflight, audit>>

\* Faulty variant of update_venue_write: update_one(..., upsert=True)
update_venue_write_upsert(coll, venue_id, venue) ==
    IF ~is_valid(venue_id) THEN coll
    ELSE IF ObjectId(venue_id) \in DOMAIN coll
         THEN update_one(coll, ObjectId(venue_id), venue_dump(venue))
         ELSE insert_one(coll, ObjectId(venue_id), new_venue(venue))

update_venue_write(coll, venue_id, venue) ==
    IF ~is_valid(venue_id) THEN coll
    ELSE update_one(coll, ObjectId(venue_id), venue_dump(venue))

update_venue_response(coll, venue_id, venue) ==
    IF ~is_valid(venue_id) THEN HTTPException(400, "Invalid venue id")
    ELSE IF matched_count(coll, ObjectId(venue_id)) = 0
         THEN HTTPException(404, "Venue not found")
         ELSE return_venue(update_venue_write(coll, venue_id, venue), ObjectId(venue_id))

update_venue(venue_id, venue) ==
    /\ venues' = update_venue_write(venues, venue_id, venue)
    /\ last' = Seen("update_venue", update_venue_response(venues, venue_id, venue))
    /\ UNCHANGED <<events, attendees, bookings, fs, nextId, deleted, inflight, audit>>

delete_venue_write(coll, venue_id) ==
    IF ~is_valid(venue_id) THEN coll ELSE delete_one(coll, ObjectId(venue_id))

delete_venue_response(coll, venue_id) ==
    IF ~is_valid(venue_id) THEN HTTPException(400, "Invalid venue id")
    ELSE IF deleted_count(coll, ObjectId(venue_id)) = 0
         THEN HTTPException(404, "Venue not found")
         ELSE Ok([message |-> "Venue deleted"])

\* The history of successful deletes
Deleted(name, coll, id, resp) ==
    IF resp.status = 200 THEN deleted \cup {<<name, ObjectId(id)>>} ELSE deleted

delete_venue(venue_id) ==
    /\ venues' = delete_venue_write(venues, venue_id)
    /\ last' = Seen("delete_venue", delete_venue_response(venues, venue_id))
    /\ deleted' = Deleted("venues", venues, venue_id, delete_venue_response(venues, venue_id))
    /\ UNCHANGED <<events, attendees, bookings, fs, nextId, inflight, audit>>

-----------------------------------------------------------------------------
(* Events *)

event_out(doc) ==
    [id |-> ObjectIdStr(doc._id), name |-> doc.name, description |-> doc.description,
     venue_id |-> doc.venue_id, date |-> doc.date, max_attendees |-> doc.max_attendees,
     poster_file_id |-> doc_get(doc, "poster_file_id"),
     promo_video_file_id |-> doc_get(doc, "promo_video_file_id")]

return_event(coll, oid) ==
    LET doc == find_one(coll, oid)
    IN  IF doc = NoDoc THEN ServerError ELSE Ok(event_out([_id |-> oid] @@ doc))

\* The checks create_event makes before it writes: the error raised, or
\* a 200 when they pass
create_event_checks(vs, event) ==
    IF ~is_valid(event.venue_id) THEN HTTPException(400, "Invalid venue id")
    ELSE IF find_one(vs, ObjectId(event.venue_id)) = NoDoc
         THEN HTTPException(404, "Venue not found")
         ELSE Ok(NoDoc)

\* Faulty variant of create_event_write: the insert does not wait for the
\* venue lookup
create_event_write_unchecked(coll, vs, oid, event) ==
    IF ~is_valid(event.venue_id) THEN coll ELSE insert_one(coll, oid, new_event(event))

create_event_write(coll, vs, oid, event) ==
    IF create_event_checks(vs, event).status = 200
    THEN insert_one(coll, oid, new_event(event))
    ELSE coll

create_event_response(coll, vs, oid, event) ==
    IF create_event_checks(vs, event).status = 200
    THEN return_event(create_event_write(coll, vs, oid, event), oid)
    ELSE create_event_checks(vs, event)

create_event(event) ==
    /\ create_event_checks(venues, event).status = 200 => nextId <= MaxIds
    /\ events' = create_event_write(events, venues, nextId, event)
    /\ nextId' = IF create_event_checks(venues, event).status = 200 THEN nextId + 1 ELSE nextId
    /\ last' = Seen("create_event", create_event_response(events, venues, nextId, event))
    /\ UNCHANGED <<venues, attendees, bookings, fs, deleted, inflight, audit>>

get_event_response(coll, event_id) ==
    IF ~is_valid(event_id) THEN HTTPException(400, "Invalid event id")
    ELSE IF find_one(coll, ObjectId(event_id)) = NoDoc
         THEN HTTPException(404, "Event not found")
         ELSE return_event(coll, ObjectId(event_id))

get_event(event_id) ==
    /\ last' = Seen("get_event", get_event_response(events, event_id))
    /\ UNCHANGED <<db, nextId, deleted, inflight, audit>>

update_event_checks(vs, event_id, event) ==
    IF ~is_valid(event_id) THEN HTTPException(400, "Invalid event id")
    ELSE IF ~is_valid(event.venue_id) THEN HTTPException(400, "Invalid venue id")
    ELSE IF find_one(vs, ObjectId(event.venue_id)) = NoDoc
         THEN HTTPException(404, "Venue not found")
         ELSE Ok(NoDoc)

\* Faulty variant of update_event_write: model_dump(exclude_none=True), so a
\* description of None is not part of the $set
update_event_write_exclude_none(coll, vs, event_id, event) ==
    IF update_event_checks(vs, event_id, event).status = 200
    THEN update_one(coll, ObjectId(event_id),
                    IF event.description = None
                    THEN [name |-> event.name, venue_id |-> event.venue_id,
                          date |-> event.date, max_attendees |-> event.max_attendees]
                    ELSE event_dump(event))
    ELSE coll

\* Faulty variant of update_event_write: replace_one instead of $set, which
\* drops the keys the body does not carry
update_event_write_replace(coll, vs, event_id, event) ==
    IF update_event_checks(vs, event_id, event).status = 200
       /\ ObjectId(event_id) \in DOMAIN coll
    THEN [coll EXCEPT ![ObjectId(event_id)] = new_event(event)]
    ELSE coll

update_event_write(coll, vs, event_id, event) ==
    IF update_event_checks(vs, event_id, event).status = 200
    THEN update_one(coll, ObjectId(event_id), event_dump(event))
    ELSE coll

update_event_response(coll, vs, event_id, event) ==
    IF update_event_checks(vs, event_id, event).status # 200
    THEN update_event_checks(vs, event_id, event)
    ELSE IF matched_count(coll, ObjectId(event_id)) = 0
         THEN HTTPException(404, "Event not found")
         ELSE return_event(update_event_write(coll, vs, event_id, event), ObjectId(event_id))

update_event(event_id, event) ==
    /\ events' = update_event_write(events, venues, event_id, event)
    /\ last' = Seen("update_event", update_event_response(events, venues, event_id, event))
    /\ UNCHANGED <<venues, attendees, bookings, fs, nextId, deleted, inflight, audit>>

delete_event_write(coll, event_id) ==
    IF ~is_valid(event_id) THEN coll ELSE delete_one(coll, ObjectId(event_id))

delete_event_response(coll, event_id) ==
    IF ~is_valid(event_id) THEN HTTPException(400, "Invalid event id")
    ELSE IF deleted_count(coll, ObjectId(event_id)) = 0
         THEN HTTPException(404, "Event not found")
         ELSE Ok([message |-> "Event deleted"])

delete_event(event_id) ==
    /\ events' = delete_event_write(events, event_id)
    /\ last' = Seen("delete_event", delete_event_response(events, event_id))
    /\ deleted' = Deleted("events", events, event_id, delete_event_response(events, event_id))
    /\ UNCHANGED <<venues, attendees, bookings, fs, nextId, inflight, audit>>

-----------------------------------------------------------------------------
(* Bookings *)

booking_out(doc) ==
    [id |-> ObjectIdStr(doc._id), event_id |-> doc.event_id, attendee_id |-> doc.attendee_id,
     tickets |-> doc.tickets, booking_date |-> doc.booking_date]

return_booking(coll, oid) ==
    LET doc == find_one(coll, oid)
    IN  IF doc = NoDoc THEN ServerError ELSE Ok(booking_out([_id |-> oid] @@ doc))

\* Faulty variant of booking_checks: the attendee is checked before the event
booking_checks_attendee_first(es, as, booking) ==
    IF ~is_valid(booking.attendee_id) THEN HTTPException(400, "Invalid attendee id")
    ELSE IF ~is_valid(booking.event_id) THEN HTTPException(400, "Invalid event id")
    ELSE IF find_one(as, ObjectId(booking.attendee_id)) = NoDoc
         THEN HTTPException(404, "Attendee not found")
    ELSE IF find_one(es, ObjectId(booking.event_id)) = NoDoc
         THEN HTTPException(404, "Event not found")
         ELSE Ok(NoDoc)

\* Faulty variant of booking_checks: the formats are checked, the lookups
\* are not made
booking_checks_formats_only(es, as, booking) ==
    IF ~is_valid(booking.event_id) THEN HTTPException(400, "Invalid event id")
    ELSE IF ~is_valid(booking.attendee_id) THEN HTTPException(400, "Invalid attendee id")
    ELSE Ok(NoDoc)

\* The checks on the two references, shared by create_booking and
\* update_booking: both formats first, then both lookups
booking_checks(es, as, booking) ==
    IF ~is_valid(booking.event_id) THEN HTTPException(400, "Invalid event id")
    ELSE IF ~is_valid(booking.attendee_id) THEN HTTPException(400, "Invalid attendee id")
    ELSE IF find_one(es, ObjectId(booking.event_id)) = NoDoc
         THEN HTTPException(404, "Event not found")
    ELSE IF find_one(as, ObjectId(booking.attendee_id)) = NoDoc
         THEN HTTPException(404, "Attendee not found")
         ELSE Ok(NoDoc)

create_booking_write(coll, es, as, oid, booking) ==
    IF booking_checks(es, as, booking).status = 200
    THEN insert_one(coll, oid, booking_dump(booking))
    ELSE coll

create_booking_response(coll, es, as, oid, booking) ==
    IF booking_checks(es, as, booking).status = 200
    THEN return_booking(create_booking_write(coll, es, as, oid, booking), oid)
    ELSE booking_checks(es, as, booking)

create_booking(booking) ==
    /\ booking_checks(events, attendees, booking).status = 200 => nextId <= MaxIds
    /\ bookings' = create_booking_write(bookings, events, attendees, nextId, booking)
    /\ nextId' = IF booking_checks(events, attendees, booking).status = 200
                 THEN nextId + 1 ELSE nextId
    /\ last' = Seen("create_booking",
                    create_booking_response(bookings, events, attendees, nextId, booking))
    /\ UNCHANGED <<venues, events, attendees, fs, deleted, inflight, audit>>

get_booking_response(coll, booking_id) ==
    IF ~is_valid(booking_id) THEN HTTPException(400, "Invalid booking id")
    ELSE IF find_one(coll, ObjectId(booking_id)) = NoDoc
         THEN HTTPException(404, "Booking not found")
         ELSE return_booking(coll, ObjectId(booking_id))

get_booking(booking_id) ==
    /\ last' = Seen("get_booking", get_booking_response(bookings, booking_id))
    /\ UNCHANGED <<db, nextId, deleted, inflight, audit>>

update_booking_checks(es, as, booking_id, booking) ==
    IF ~is_valid(booking_id) THEN HTTPException(400, "Invalid booking id")
    ELSE booking_checks(es, as, booking)

update_booking_write(coll, es, as, booking_id, booking) ==
    IF update_booking_checks(es, as, booking_id, booking).status = 200
    THEN update_one(coll, ObjectId(booking_id), booking_dump(booking))
    ELSE coll

update_booking_response(coll, es, as, booking_id, booking) ==
    IF update_booking_checks(es, as, booking_id, booking).status # 200
    THEN update_booking_checks(es, as, booking_id, booking)
    ELSE IF matched_count(coll, ObjectId(booking_id)) = 0
         THEN HTTPException(404, "Booking not found")
         ELSE return_booking(update_booking_write(coll, es, as, booking_id, booking),
                             ObjectId(booking_id))

update_booking(booking_id, booking) ==
    /\ bookings' = update_booking_write(bookings, events, attendees, booking_id, booking)
    /\ last' = Seen("update_booking",
                    update_booking_response(bookings, events, attendees, booking_id, booking))
    /\ UNCHANGED <<venues, events, attendees, fs, nextId, deleted, inflight, audit>>

delete_booking_write(coll, booking_id) ==
    IF ~is_valid(booking_id) THEN coll ELSE delete_one(coll, ObjectId(booking_id))

delete_booking_response(coll, booking_id) ==
    IF ~is_valid(booking_id) THEN HTTPException(400, "Invalid booking id")
    ELSE IF deleted_count(coll, ObjectId(booking_id)) = 0
         THEN HTTPException(404, "Booking not found")
         ELSE Ok([message |-> "Booking deleted"])

delete_booking(booking_id) ==
    /\ bookings' = delete_booking_write(bookings, booking_id)
    /\ last' = Seen("delete_booking", delete_booking_response(bookings, booking_id))
    /\ deleted' = Deleted("bookings", bookings, booking_id,
                          delete_booking_response(bookings, booking_id))
    /\ UNCHANGED <<venues, events, attendees, fs, nextId, inflight, audit>>

-----------------------------------------------------------------------------
(* Attendees *)

attendee_out(doc) ==
    [id |-> ObjectIdStr(doc._id), name |-> doc.name, email |-> doc.email, phone |-> doc.phone]

return_attendee(coll, oid) ==
    LET doc == find_one(coll, oid)
    IN  IF doc = NoDoc THEN ServerError ELSE Ok(attendee_out([_id |-> oid] @@ doc))

create_attendee_response(coll, oid, attendee) ==
    return_attendee(insert_one(coll, oid, attendee_dump(attendee)), oid)

create_attendee(attendee) ==
    /\ nextId <= MaxIds
    /\ attendees' = insert_one(attendees, nextId, attendee_dump(attendee))
    /\ nextId' = nextId + 1
    /\ last' = Seen("create_attendee", create_attendee_response(attendees, nextId, attendee))
    /\ UNCHANGED <<venues, events, bookings, fs, deleted, inflight, audit>>

get_attendee_response(coll, attendee_id) ==
    IF ~is_valid(attendee_id) THEN HTTPException(400, "Invalid attendee id")
    ELSE IF find_one(coll, ObjectId(attendee_id)) = NoDoc
         THEN HTTPException(404, "Attendee not found")
         ELSE return_attendee(coll, ObjectId(attendee_id))

get_attendee(attendee_id) ==
    /\ last' = Seen("get_attendee", get_attendee_response(attendees, attendee_id))
    /\ UNCHANGED <<db, nextId, deleted, inflight, audit>>

update_attendee_write(coll, attendee_id, attendee) ==
    IF ~is_valid(attendee_id) THEN coll
    ELSE update_one(coll, ObjectId(attendee_id), attendee_dump(attendee))

update_attendee_response(coll, attendee_id, attendee) ==
    IF ~is_valid(attendee_id) THEN HTTPException(400, "Invalid attendee id")
    ELSE IF matched_count(coll, ObjectId(attendee_id)) = 0
         THEN HTTPException(404, "Attendee not found")
         ELSE return_attendee(update_attendee_write(coll, attendee_id, attendee),
                              ObjectId(attendee_id))

update_attendee(attendee_id, attendee) ==
    /\ attendees' = update_attendee_write(attendees, attendee_id, attendee)
    /\ last' = Seen("update_attendee", update_attendee_response(attendees, attendee_id, attendee))
    /\ UNCHANGED <<venues, events, bookings, fs, nextId, deleted, inflight, audit>>

delete_attendee_write(coll, attendee_id) ==
    IF ~is_valid(attendee_id) THEN coll ELSE delete_one(coll, ObjectId(attendee_id))

delete_attendee_response(coll, attendee_id) ==
    IF ~is_valid(attendee_id) THEN HTTPException(400, "Invalid attendee id")
    ELSE IF deleted_count(coll, ObjectId(attendee_id)) = 0
         THEN HTTPException(404, "Attendee not found")
         ELSE Ok([message |-> "Attendee deleted"])

delete_attendee(attendee_id) ==
    /\ attendees' = delete_attendee_write(attendees, attendee_id)
    /\ last' = Seen("delete_attendee", delete_attendee_response(attendees, attendee_id))
    /\ deleted' = Deleted("attendees", attendees, attendee_id,
                          delete_attendee_response(attendees, attendee_id))
    /\ UNCHANGED <<venues, events, bookings, fs, nextId, inflight, audit>>

-----------------------------------------------------------------------------
(* Media (GridFS) *)

\* The three upload handlers: the id format check, fs.put, update_one on the
\* owner (its result is not looked at), and the success response
upload_fs(files, owner_id, oid, file) ==
    IF ~is_valid(owner_id) THEN files ELSE fs_put(files, oid, file)

\* Faulty variant of upload_owner: the key is set only when the owner does
\* not hold it yet, so the first upload stays
upload_owner_keep_first(coll, owner_id, key, oid) ==
    IF ~is_valid(owner_id) \/ ObjectId(owner_id) \notin DOMAIN coll THEN coll
    ELSE IF coll[ObjectId(owner_id)][key] # Missing THEN coll
    ELSE update_one(coll, ObjectId(owner_id), [k \in {key} |-> ObjectIdStr(oid)])

upload_owner(coll, owner_id, key, oid) ==
    IF ~is_valid(owner_id) THEN coll
    ELSE update_one(coll, ObjectId(owner_id), [k \in {key} |-> ObjectIdStr(oid)])

upload_response(owner_id, oid, invalid, message) ==
    IF ~is_valid(owner_id) THEN HTTPException(400, invalid)
    ELSE Ok([message |-> message, file_id |-> ObjectIdStr(oid)])

upload_venue_photo_response(venue_id, oid) ==
    upload_response(venue_id, oid, "Invalid venue id", "Venue photo uploaded")

upload_venue_photo(venue_id, file) ==
    /\ is_valid(venue_id) => nextId <= MaxIds
    /\ fs' = upload_fs(fs, venue_id, nextId, file)
    /\ venues' = upload_owner(venues, venue_id, "photo_file_id", nextId)
    /\ nextId' = IF is_valid(venue_id) THEN nextId + 1 ELSE nextId
    /\ last' = Seen("upload_venue_photo", upload_venue_photo_response(venue_id, nextId))
    /\ UNCHANGED <<events, attendees, bookings, deleted, inflight, audit>>

upload_event_poster_response(event_id, oid) ==
    upload_response(event_id, oid, "Invalid event id", "Event poster uploaded")

upload_event_poster(event_id, file) ==
    /\ is_valid(event_id) => nextId <= MaxIds
    /\ fs' = upload_fs(fs, event_id, nextId, file)
    /\ events' = upload_owner(events, event_id, "poster_file_id", nextId)
    /\ nextId' = IF is_valid(event_id) THEN nextId + 1 ELSE nextId
    /\ last' = Seen("upload_event_poster", upload_event_poster_response(event_id, nextId))
    /\ UNCHANGED <<venues, attendees, bookings, deleted, inflight, audit>>

upload_event_video_response(event_id, oid) ==
    upload_response(event_id, oid, "Invalid event id", "Promo video uploaded")

upload_event_video(event_id, file) ==
    /\ is_valid(event_id) => nextId <= MaxIds
    /\ fs' = upload_fs(fs, event_id, nextId, file)
    /\ events' = upload_owner(events, event_id, "promo_video_file_id", nextId)
    /\ nextId' = IF is_valid(event_id) THEN nextId + 1 ELSE nextId
    /\ last' = Seen("upload_event_video", upload_event_video_response(event_id, nextId))
    /\ UNCHANGED <<venues, attendees, bookings, deleted, inflight, audit>>

\* StreamingResponse(io.BytesIO(grid_out.read()),
\*                   media_type=grid_out.content_type or "application/octet-stream", ...)
StreamingResponse(grid_out) ==
    Ok([content |-> grid_out.content,
        media_type |-> IF grid_out.contentType = None THEN "application/octet-stream"
                       ELSE grid_out.contentType,
        filename |-> grid_out.filename])

\* The three fetch handlers: id format, owner and key present, fs.get
\* (which raises NoFile, a 500, when no file has the id)
media_response(coll, files, owner_id, key, invalid, notfound) ==
    IF ~is_valid(owner_id) THEN HTTPException(400, invalid)
    ELSE LET doc == find_one(coll, ObjectId(owner_id))
         IN  IF doc = NoDoc \/ doc[key] = Missing THEN HTTPException(404, notfound)
             ELSE IF find_one(files, ObjectId(doc[key])) = NoDoc THEN ServerError
             ELSE StreamingResponse(find_one(files, ObjectId(doc[key])))

get_venue_photo_response(coll, files, venue_id) ==
    media_response(coll, files, venue_id, "photo_file_id",
                   "Invalid venue id", "Venue photo not found")

get_venue_photo(venue_id) ==
    /\ last' = Seen("get_venue_photo", get_venue_photo_response(venues, fs, venue_id))
    /\ UNCHANGED <<db, nextId, deleted, inflight, audit>>

get_event_poster_response(coll, files, event_id) ==
    media_response(coll, files, event_id, "poster_file_id",
                   "Invalid event id", "Event poster not found")

get_event_poster(event_id) ==
    /\ last' = Seen("get_event_poster", get_event_poster_response(events, fs, event_id))
    /\ UNCHANGED <<db, nextId, deleted, inflight, audit>>

get_event_video_response(coll, files, event_id) ==
    media_response(coll, files, event_id, "promo_video_file_id",
                   "Invalid event id", "Promo video not found")

get_event_video(event_id) ==
    /\ last' = Seen("get_event_video", get_event_video_response(events, fs, event_id))
    /\ UNCHANGED <<db, nextId, deleted, inflight, audit>>

-----------------------------------------------------------------------------
(* Requests one at a time *)

Empty == [k \in {} |-> NoDoc]

\* The database outlives the process.  It starts empty, or as earlier
\* requests left it: create_venue, upload_venue_photo, create_event and
\* create_attendee, in this order, leave PopulatedVenues .. PopulatedFs
PopulatedVenues ==
    update_one(insert_one(Empty, 1,
                          new_venue([name |-> "Hall A", address |-> "1 Main St",
                                     capacity |-> 100])),
               1, [photo_file_id |-> ObjectIdStr(2)])

PopulatedFs ==
    fs_put(Empty, 2, [content |-> "PNG-bytes", content_type |-> "image/png",
                      filename |-> "a.png"])

PopulatedEvents ==
    insert_one(Empty, 3,
               new_event([name |-> "Gala", description |-> None, venue_id |-> ObjectIdStr(1),
                          date |-> "2025-01-01", max_attendees |-> 10]))

PopulatedAttendees ==
    insert_one(Empty, 4, attendee_dump([name |-> "Ann", email |-> "ann@x.org", phone |-> None]))

InitDb ==
    \/ /\ venues = Empty
       /\ events = Empty
       /\ attendees = Empty
       /\ fs = Empty
    \/ /\ venues = PopulatedVenues
       /\ events = PopulatedEvents
       /\ attendees = PopulatedAttendees
       /\ fs = PopulatedFs

Init ==
    /\ InitDb
    /\ bookings = Empty
    /\ nextId = FirstId
    /\ last = [op |-> "none", status |-> 0, detail |-> ""]
    /\ audit = "off"
    /\ deleted = {}
    /\ inflight = Empty

Writes ==
    \/ \E venue \in VenueIn : create_venue(venue)
    \/ \E venue_id \in PathIds(venues), venue \in VenueIn : update_venue(venue_id, venue)
    \/ \E event \in EventIn : create_event(event)
    \/ \E event_id \in PathIds(events), event \in EventIn : update_event(event_id, event)
    \/ \E booking \in BookingIn : create_booking(booking)
    \/ \E booking_id \in PathIds(bookings), booking \in BookingIn : update_booking(booking_id, booking)
    \/ \E attendee \in AttendeeIn : create_attendee(attendee)
    \/ \E attendee_id \in PathIds(attendees), attendee \in AttendeeIn : update_attendee(attendee_id, attendee)
    \/ \E venue_id \in PathIds(venues), file \in UploadFile : upload_venue_photo(venue_id, file)
    \/ \E event_id \in PathIds(events), file \in UploadFile : upload_event_poster(event_id, file)
    \/ \E event_id \in PathIds(events), file \in UploadFile : upload_event_video(event_id, file)

Reads ==
    \/ \E venue_id \in PathIds(venues) : get_venue(venue_id)
    \/ \E event_id \in PathIds(events) : get_event(event_id)
    \/ \E booking_id \in PathIds(bookings) : get_booking(booking_id)
    \/ \E attendee_id \in PathIds(attendees) : get_attendee(attendee_id)
    \/ \E venue_id \in PathIds(venues) : get_venue_photo(venue_id)
    \/ \E event_id \in PathIds(events) : get_event_poster(event_id)
    \/ \E event_id \in PathIds(events) : get_event_video(event_id)

Deletes ==
    \/ \E venue_id \in PathIds(venues) : delete_venue(venue_id)
    \/ \E event_id \in PathIds(events) : delete_event(event_id)
    \/ \E booking_id \in PathIds(bookings) : delete_booking(booking_id)
    \/ \E attendee_id \in PathIds(attendees) : delete_attendee(attendee_id)

Next == Writes \/ Reads \/ Deletes

Spec == Init /\ [][Next]_vars

NoDelNext == Writes \/ Reads

NoDelSpec == Init /\ [][NoDelNext]_vars

-----------------------------------------------------------------------------
(* The reference checks, every response observed *)

RefInit ==
    /\ InitDb
    /\ bookings = Empty
    /\ nextId = FirstId
    /\ last = [op |-> "none", status |-> 0, detail |-> ""]
    /\ audit = "all"
    /\ deleted = {}
    /\ inflight = Empty

RefNext ==
    \/ \E event \in EventIn : create_event(event)
    \/ \E event_id \in PathIds(events), event \in EventIn : update_event(event_id, event)
    \/ \E booking \in BookingIn : create_booking(booking)
    \/ \E booking_id \in PathIds(bookings), booking \in BookingIn : update_booking(booking_id, booking)
    \/ \E venue_id \in PathIds(venues) : delete_venue(venue_id)
    \/ \E event_id \in PathIds(events) : delete_event(event_id)
    \/ \E attendee_id \in PathIds(attendees) : delete_attendee(attendee_id)

RefSpec == RefInit /\ [][RefNext]_vars

-----------------------------------------------------------------------------
(* Concurrent requests: the venue handlers, one action per stretch of code
   that ends at an await of the database (or at the return) *)

Clients == 1 .. NumClients

Suspend(c, frame) == [k \in DOMAIN inflight \cup {c} |-> IF k = c THEN frame ELSE inflight[k]]

Resume(c) == [k \in DOMAIN inflight \ {c} |-> inflight[k]]

\* create_venue up to its second await: insert_one has run
create_venue_insert(c, venue) ==
    /\ c \notin DOMAIN inflight
    /\ nextId <= MaxIds
    /\ venues' = insert_one(venues, nextId, new_venue(venue))
    /\ nextId' = nextId + 1
    /\ inflight' = Suspend(c, [op |-> "create_venue", oid |-> nextId])
    /\ UNCHANGED <<events, attendees, bookings, fs, last, deleted, audit>>

\* create_venue from find_one to the return
create_venue_find(c) ==
    /\ c \in DOMAIN inflight
    /\ inflight[c].op = "create_venue"
    /\ last' = Seen("create_venue", return_venue(venues, inflight[c].oid))
    /\ inflight' = Resume(c)
    /\ UNCHANGED <<db, nextId, deleted, audit>>

\* update_venue up to its second await: update_one has run; the request
\* ends here when the id is malformed or no document matched
update_venue_update(c, venue_id, venue) ==
    /\ c \notin DOMAIN inflight
    /\ venues' = update_venue_write(venues, venue_id, venue)
    /\ IF is_valid(venue_id) /\ matched_count(venues, ObjectId(venue_id)) # 0
       THEN /\ inflight' = Suspend(c, [op |-> "update_venue", oid |-> ObjectId(venue_id)])
            /\ UNCHANGED last
       ELSE /\ last' = Seen("update_venue", update_venue_response(venues, venue_id, venue))
            /\ UNCHANGED inflight
    /\ UNCHANGED <<events, attendees, bookings, fs, nextId, deleted, audit>>

\* update_venue from find_one to the return
update_venue_find(c) ==
    /\ c \in DOMAIN inflight
    /\ inflight[c].op = "update_venue"
    /\ last' = Seen("update_venue", return_venue(venues, inflight[c].oid))
    /\ inflight' = Resume(c)
    /\ UNCHANGED <<db, nextId, deleted, audit>>

ConcInit ==
    /\ InitDb
    /\ bookings = Empty
    /\ nextId = FirstId
    /\ last = [op |-> "none", status |-> 0, detail |-> ""]
    /\ audit = "all"
    /\ deleted = {}
    /\ inflight = Empty

\* get_venue and delete_venue await the database once: each is one step
ConcNext ==
    \/ \E c \in Clients, venue \in VenueIn : create_venue_insert(c, venue)
    \/ \E c \in Clients : create_venue_find(c)
    \/ \E c \in Clients, venue_id \in PathIds(venues), venue \in VenueIn :
            update_venue_update(c, venue_id, venue)
    \/ \E c \in Clients : update_venue_find(c)
    \/ \E venue_id \in PathIds(venues) : get_venue(venue_id)
    \/ \E venue_id \in PathIds(venues) : delete_venue(venue_id)

ConcSpec == ConcInit /\ [][ConcNext]_vars

-----------------------------------------------------------------------------
(* Properties.  A step formula below names the handler by the action it
   took; the test of nextId' or last' in front only spares evaluating the
   action on the steps of other handlers (a handler that inserts takes the
   next ObjectId, and under audit = "all" every handler leaves its name in
   last).  A state formula names the handler
   by the operators its action is made of: the write it does to the state at
   hand and the response it gives. *)

Restrict(rec, keys) == [f \in keys |-> rec[f]]

\* oid is the id of no document or file, stored or deleted
Fresh(oid) ==
    /\ oid \notin DOMAIN venues \cup DOMAIN events \cup DOMAIN attendees
                  \cup DOMAIN bookings \cup DOMAIN fs
    /\ \A d \in deleted : d[2] # oid

\* after is before and one more document, under oid
OneMore(before, after, oid) ==
    /\ oid \notin DOMAIN before
    /\ DOMAIN after = DOMAIN before \cup {oid}
    /\ \A k \in DOMAIN before : after[k] = before[k]

\* Both spellings of an ObjectId
Spellings(oid) == {ObjectIdStr(oid), UpperStr(oid)}

\* s is malformed, or well-formed and the id of no document of coll
InvalidRef(coll, s) == ~is_valid(s) \/ find_one(coll, ObjectId(s)) = NoDoc

\* s is well-formed and the id of no document of coll
DanglingRef(coll, s) == is_valid(s) /\ find_one(coll, ObjectId(s)) = NoDoc

(* ---- C1 ---- *)

C1Venue ==
    nextId' = nextId + 1 =>
        \A venue \in VenueIn : create_venue(venue) =>
            LET r == create_venue_response(venues, nextId, venue)
            IN  /\ r.status = 200
                /\ Fresh(ObjectId(r.body.id))
                /\ OneMore(venues, venues', ObjectId(r.body.id))
                /\ UNCHANGED <<events, attendees, bookings, fs>>
                /\ get_venue_response(venues', r.body.id) = r

C1Event ==
    nextId' = nextId + 1 =>
        \A event \in EventIn :
            (create_event(event) /\ ~InvalidRef(venues, event.venue_id)) =>
                LET r == create_event_response(events, venues, nextId, event)
                IN  /\ r.status = 200
                    /\ Fresh(ObjectId(r.body.id))
                    /\ OneMore(events, events', ObjectId(r.body.id))
                    /\ UNCHANGED <<venues, attendees, bookings, fs>>
                    /\ get_event_response(events', r.body.id) = r

C1Attendee ==
    nextId' = nextId + 1 =>
        \A attendee \in AttendeeIn : create_attendee(attendee) =>
            LET r == create_attendee_response(attendees, nextId, attendee)
            IN  /\ r.status = 200
                /\ Fresh(ObjectId(r.body.id))
                /\ OneMore(attendees, attendees', ObjectId(r.body.id))
                /\ UNCHANGED <<venues, events, bookings, fs>>
                /\ get_attendee_response(attendees', r.body.id) = r

C1Booking ==
    nextId' = nextId + 1 =>
        \A booking \in BookingIn :
            (/\ create_booking(booking)
             /\ ~InvalidRef(events, booking.event_id)
             /\ ~InvalidRef(attendees, booking.attendee_id)) =>
                LET r == create_booking_response(bookings, events, attendees, nextId, booking)
                IN  /\ r.status = 200
                    /\ Fresh(ObjectId(r.body.id))
                    /\ OneMore(bookings, bookings', ObjectId(r.body.id))
                    /\ UNCHANGED <<venues, events, attendees, fs>>
                    /\ get_booking_response(bookings', r.body.id) = r

\* C1: for each of the four resource types, a create of a valid input whose
\* references exist inserts exactly one document, under an id never used
\* before, and answers a record r; a get of r.id in the state the create
\* leaves answers exactly r.
C1_CreateGetRoundTrip == [][C1Venue /\ C1Event /\ C1Attendee /\ C1Booking]_vars

\* create_booking has stored a booking, under the first new id
C1_Witness == DOMAIN bookings = {FirstId}

(* ---- C2 ---- *)

\* The id of the record answered is the string sent
SameString(got, sent) == got = sent

\* The id of the record answered is the lower-case spelling of the id sent
SameObjectId(got, sent) == got = ObjectIdStr(ObjectId(sent))

\* r, the answer of a successful update(id, y), against g, the answer of the
\* get(id) that follows
C2After(r, g, id, y, Same(_, _)) ==
    /\ g = r
    /\ g.status = 200
    /\ Same(g.body.id, id)
    /\ Restrict(g.body, DOMAIN y) = y

C2Venue(Same(_, _)) ==
    \A venue_id \in PathIds(venues), y \in VenueIn :
        LET r == update_venue_response(venues, venue_id, y)
        IN  r.status = 200 =>
                C2After(r, get_venue_response(update_venue_write(venues, venue_id, y), venue_id),
                        venue_id, y, Same)

C2Event(Same(_, _)) ==
    \A event_id \in PathIds(events), y \in EventIn :
        LET r == update_event_response(events, venues, event_id, y)
        IN  r.status = 200 =>
                C2After(r, get_event_response(update_event_write(events, venues, event_id, y),
                                              event_id),
                        event_id, y, Same)

C2Attendee(Same(_, _)) ==
    \A attendee_id \in PathIds(attendees), y \in AttendeeIn :
        LET r == update_attendee_response(attendees, attendee_id, y)
        IN  r.status = 200 =>
                C2After(r, get_attendee_response(update_attendee_write(attendees, attendee_id, y),
                                                 attendee_id),
                        attendee_id, y, Same)

C2Booking(Same(_, _)) ==
    \A booking_id \in PathIds(bookings), y \in BookingIn :
        LET r == update_booking_response(bookings, events, attendees, booking_id, y)
        IN  r.status = 200 =>
                C2After(r, get_booking_response(
                               update_booking_write(bookings, events, attendees, booking_id, y),
                               booking_id),
                        booking_id, y, Same)

\* C2 as stated: in every reachable state, an update(id, y) that succeeds
\* leaves a state where get(id) answers the record the update answered, its
\* id is the string id, and its input fields are y's.
C2_Original ==
    /\ C2Venue(SameString) /\ C2Event(SameString)
    /\ C2Attendee(SameString) /\ C2Booking(SameString)

\* C2 as amended: in every reachable state, an update(id, y) that succeeds
\* leaves a state where get(id) answers the record the update answered, its
\* id is str(ObjectId(id)), the lower-case spelling of id, and its input
\* fields are exactly y's.
C2_UpdateGetFullReplace ==
    /\ C2Venue(SameObjectId) /\ C2Event(SameObjectId)
    /\ C2Attendee(SameObjectId) /\ C2Booking(SameObjectId)

\* update_event has replaced every input field of the event stored at the start
C2_Witness ==
    /\ 3 \in DOMAIN events
    /\ Restrict(events[3], {"name", "description", "date", "max_attendees"})
         = [name |-> "Expo", description |-> "trade fair", date |-> "2025-02-02",
            max_attendees |-> 20]

(* ---- C3 ---- *)

GetResponse(name, id) ==
    CASE name = "venues" -> get_venue_response(venues, id)
      [] name = "events" -> get_event_response(events, id)
      [] name = "attendees" -> get_attendee_response(attendees, id)
      [] name = "bookings" -> get_booking_response(bookings, id)

NotFound(name) ==
    CASE name = "venues" -> HTTPException(404, "Venue not found")
      [] name = "events" -> HTTPException(404, "Event not found")
      [] name = "attendees" -> HTTPException(404, "Attendee not found")
      [] name = "bookings" -> HTTPException(404, "Booking not found")

\* C3: in every state after a successful delete of an id, whatever requests
\* came in between, a get of that id (in either spelling) answers 404
\* "<Resource> not found".
C3_DeletedStaysDeleted ==
    \A d \in deleted : \A id \in Spellings(d[2]) : GetResponse(d[1], id) = NotFound(d[1])

\* The venue stored at the start was deleted and a venue was created: it has
\* a new id, and the deleted id is still the id of no venue
C3_Witness ==
    /\ <<"venues", 1>> \in deleted
    /\ DOMAIN venues = {FirstId}

(* ---- C4 ---- *)

C4Create ==
    last'.op = "create_event" =>
        \A event \in EventIn :
            (DanglingRef(venues, event.venue_id) /\ create_event(event)) =>
                /\ create_event_response(events, venues, nextId, event)
                     = HTTPException(404, "Venue not found")
                /\ UNCHANGED <<db, nextId>>

C4Update(ids) ==
    last'.op = "update_event" =>
        \A event_id \in ids, event \in EventIn :
            (DanglingRef(venues, event.venue_id) /\ update_event(event_id, event)) =>
                /\ update_event_response(events, venues, event_id, event)
                     = HTTPException(404, "Venue not found")
                /\ UNCHANGED <<db, nextId>>

\* C4 as stated: create_event, and update_event under any event_id, with a
\* well-formed venue_id that names no venue answer 404 "Venue not found" and
\* leave every collection as it was.
C4_Original == [][C4Create /\ C4Update(PathIds(events))]_vars

\* C4 as amended: create_event, and update_event under a well-formed
\* event_id, with a well-formed venue_id that names no venue answer 404
\* "Venue not found" and leave every collection as it was.
C4_VenueCheckedBeforeWrite ==
    [][C4Create /\ C4Update({id \in PathIds(events) : is_valid(id)})]_vars

\* update_event of a stored event has just been refused for its venue
C4_Witness ==
    /\ last = [op |-> "update_event", status |-> 404, detail |-> "Venue not found"]
    /\ events # Empty

(* ---- C5 ---- *)

NamesEvent(resp) ==
    resp = HTTPException(400, "Invalid event id") \/ resp = HTTPException(404, "Event not found")

\* The claim as stated: the error names the event
C5AsStated(booking, resp) == NamesEvent(resp)

\* The claim as amended
C5Expected(booking, resp) ==
    IF is_valid(booking.event_id) /\ ~is_valid(booking.attendee_id)
    THEN resp = HTTPException(400, "Invalid attendee id")
    ELSE NamesEvent(resp)

C5Create(Expected(_, _)) ==
    \A booking \in BookingIn :
        (/\ InvalidRef(events, booking.event_id)
         /\ InvalidRef(attendees, booking.attendee_id)) =>
            Expected(booking,
                     create_booking_response(bookings, events, attendees, nextId, booking))

C5Update(ids, Expected(_, _)) ==
    \A booking_id \in ids, booking \in BookingIn :
        (/\ InvalidRef(events, booking.event_id)
         /\ InvalidRef(attendees, booking.attendee_id)) =>
            Expected(booking,
                     update_booking_response(bookings, events, attendees, booking_id, booking))

\* C5 as stated: in every reachable state, create_booking and update_booking
\* given two invalid references, each malformed or naming nothing, answer an
\* error that names the event.
C5_Original == C5Create(C5AsStated) /\ C5Update(PathIds(bookings), C5AsStated)

\* C5 as amended: in every reachable state, create_booking, and
\* update_booking under a well-formed booking_id, given two invalid
\* references answer an error that names the event, except when event_id is
\* well-formed and attendee_id is malformed: the two formats are checked
\* before the two lookups, and the answer is 400 "Invalid attendee id".
C5_EventCheckedFirst ==
    /\ C5Create(C5Expected)
    /\ C5Update({id \in PathIds(bookings) : is_valid(id)}, C5Expected)

\* update_booking has just been refused for its event, no attendee being stored
C5_Witness ==
    /\ last = [op |-> "update_booking", status |-> 404, detail |-> "Event not found"]
    /\ attendees = Empty

(* ---- C6 ---- *)

\* No venue and no event holds file_id in an attachment key
Orphan(vs, es, file_id) ==
    /\ \A v \in DOMAIN vs : vs[v].photo_file_id # file_id
    /\ \A e \in DOMAIN es :
          es[e].poster_file_id # file_id /\ es[e].promo_video_file_id # file_id

C6Outcome(resp) ==
    /\ nextId \in DOMAIN fs'
    /\ Orphan(venues', events', ObjectIdStr(nextId))
    /\ resp.status # 200

\* C6: an upload against a well-formed owner id that names no owner stores a
\* file that no owner holds, and the request does not answer success.
C6_Claim ==
    [][/\ nextId' = nextId + 1 =>
            \A venue_id \in PathIds(venues), file \in UploadFile :
                (upload_venue_photo(venue_id, file) /\ DanglingRef(venues, venue_id)) =>
                    C6Outcome(upload_venue_photo_response(venue_id, nextId))
       /\ nextId' = nextId + 1 =>
            \A event_id \in PathIds(events), file \in UploadFile :
                (upload_event_poster(event_id, file) /\ DanglingRef(events, event_id)) =>
                    C6Outcome(upload_event_poster_response(event_id, nextId))
       /\ nextId' = nextId + 1 =>
            \A event_id \in PathIds(events), file \in UploadFile :
                (upload_event_video(event_id, file) /\ DanglingRef(events, event_id)) =>
                    C6Outcome(upload_event_video_response(event_id, nextId))]_vars

(* ---- C7 ---- *)

\* The content type the upload carried
TypeSent(file) == file.content_type

\* The content type the fetch answers with
TypeServed(file) ==
    IF file.content_type = None THEN "application/octet-stream" ELSE file.content_type

Serves(resp, file, Type(_)) ==
    /\ resp.status = 200
    /\ resp.body.content = file.content
    /\ resp.body.media_type = Type(file)

\* A successful upload for a stored owner is what the fetch then serves
C7Upload(Type(_)) ==
    /\ nextId' = nextId + 1 =>
        \A venue_id \in PathIds(venues), file \in UploadFile :
            (upload_venue_photo(venue_id, file) /\ ~InvalidRef(venues, venue_id)) =>
                Serves(get_venue_photo_response(venues', fs', venue_id), file, Type)
    /\ nextId' = nextId + 1 =>
        \A event_id \in PathIds(events), file \in UploadFile :
            (upload_event_poster(event_id, file) /\ ~InvalidRef(events, event_id)) =>
                Serves(get_event_poster_response(events', fs', event_id), file, Type)
    /\ nextId' = nextId + 1 =>
        \A event_id \in PathIds(events), file \in UploadFile :
            (upload_event_video(event_id, file) /\ ~InvalidRef(events, event_id)) =>
                Serves(get_event_video_response(events', fs', event_id), file, Type)

\* A step that is no upload to the slot of an owner that stays stored leaves
\* what the fetch of that slot serves
C7Keep ==
    /\ (venues' = venues /\ fs' = fs) \/
          \A v \in DOMAIN venues \cap DOMAIN venues' :
              \/ get_venue_photo_response(venues', fs', ObjectIdStr(v))
                   = get_venue_photo_response(venues, fs, ObjectIdStr(v))
              \/ \E id \in Spellings(v), file \in UploadFile : upload_venue_photo(id, file)
    /\ (events' = events /\ fs' = fs) \/
          \A e \in DOMAIN events \cap DOMAIN events' :
              /\ \/ get_event_poster_response(events', fs', ObjectIdStr(e))
                      = get_event_poster_response(events, fs, ObjectIdStr(e))
                 \/ \E id \in Spellings(e), file \in UploadFile : upload_event_poster(id, file)
              /\ \/ get_event_video_response(events', fs', ObjectIdStr(e))
                      = get_event_video_response(events, fs, ObjectIdStr(e))
                 \/ \E id \in Spellings(e), file \in UploadFile : upload_event_video(id, file)

\* C7 as stated: while the owner stays stored, the fetch of a slot serves the
\* bytes and the content type sent with the latest upload to it.
C7_Original == [][C7Upload(TypeSent) /\ C7Keep]_vars

\* C7 as amended: while the owner stays stored, the fetch of a slot serves the
\* bytes of the latest upload to it and that upload's content type, or
\* "application/octet-stream" when the upload carried none.
C7_FetchServesLatestUpload == [][C7Upload(TypeServed) /\ C7Keep]_vars

\* The venue that started with a photo got another one, and was updated
C7_Witness ==
    /\ 1 \in DOMAIN venues
    /\ {2, FirstId} \subseteq DOMAIN fs
    /\ venues[1].photo_file_id = ObjectIdStr(FirstId)
    /\ venues[1].name = "Hall B"

(* ---- C8 ---- *)

\* C8: with requests one at a time and no delete, the venue_id of every
\* stored event names a stored venue, and the event_id and attendee_id of
\* every stored booking name a stored event and a stored attendee.
C8_ReferencesResolve ==
    /\ \A e \in DOMAIN events : ~InvalidRef(venues, events[e].venue_id)
    /\ \A b \in DOMAIN bookings :
          /\ ~InvalidRef(events, bookings[b].event_id)
          /\ ~InvalidRef(attendees, bookings[b].attendee_id)

\* A booking is stored, and the event it names has been updated
C8_Witness ==
    /\ bookings # Empty
    /\ \E e \in DOMAIN events : events[e].name = "Expo"

(* ---- C9 ---- *)

\* after has the documents of before, each with the value before holds under key
KeepsKey(before, after, key) ==
    /\ DOMAIN after = DOMAIN before
    /\ \A k \in DOMAIN before : after[k][key] = before[k][key]

\* after differs from before in the document named by id at most
OnlyTarget(before, after, id) ==
    \A k \in DOMAIN before \cap DOMAIN after :
        (~is_valid(id) \/ k # ObjectId(id)) => after[k] = before[k]

C9Event ==
    \A event_id \in PathIds(events), event \in EventIn :
        LET after == update_event_write(events, venues, event_id, event)
            g == get_event_response(after, event_id)
        IN  /\ KeepsKey(events, after, "poster_file_id")
            /\ KeepsKey(events, after, "promo_video_file_id")
            /\ OnlyTarget(events, after, event_id)
            /\ g.status = 200 =>
                  /\ g.body.poster_file_id
                       = doc_get(events[ObjectId(event_id)], "poster_file_id")
                  /\ g.body.promo_video_file_id
                       = doc_get(events[ObjectId(event_id)], "promo_video_file_id")

C9Venue ==
    \A venue_id \in PathIds(venues), venue \in VenueIn :
        LET after == update_venue_write(venues, venue_id, venue)
        IN  /\ KeepsKey(venues, after, "photo_file_id")
            /\ OnlyTarget(venues, after, venue_id)

\* C9: in every reachable state, the write of update_event leaves the
\* poster_file_id and promo_video_file_id of every event as they were and
\* touches the target document only, and the get_event that follows answers
\* the two ids the event held; the write of update_venue leaves every
\* photo_file_id as it was.
C9_UpdateKeepsAttachments == C9Event /\ C9Venue

\* The venue that started with a photo was updated and holds the same photo,
\* and an event that got a poster was updated
C9_Witness ==
    /\ 1 \in DOMAIN venues
    /\ venues[1] = [name |-> "Hall B", address |-> "2 High St", capacity |-> 50,
                    photo_file_id |-> ObjectIdStr(2)]
    /\ \E e \in DOMAIN events :
          events[e].poster_file_id # Missing /\ events[e].name = "Expo"

(* ---- C10 ---- *)

\* C10: under every interleaving, the re-read that ends a create or an update
\* whose write succeeded finds the document, and the request answers 200
\* with the stored record.
C10_Claim ==
    [][\A c \in Clients :
          (create_venue_find(c) \/ update_venue_find(c)) =>
              return_venue(venues, inflight[c].oid).status = 200]_vars

=============================================================================
